---------------------------- MODULE Spec2Model ----------------------------
(***************************************************************************)
(* Model of the document ingestion and retrieval pipeline of               *)
(* backend/internal/document/document.go: ChunkText, processPDF,           *)
(* getEmbedding, addToChroma, queryChroma, getOrCreateCollection and the   *)
(* handlers HandleUpload, HandleSearch and HandleReset, running against a  *)
(* model of the two upstream services (embedding provider, vector store),  *)
(* behind Middleware of backend/internal/auth/handler.go.                  *)
(*                                                                         *)
(* A text is a sequence of one-character strings.  A collection or record  *)
(* identifier is a natural number; 0 stands for the empty string "".       *)
(***************************************************************************)
EXTENDS Integers, Sequences, FiniteSets, TLC

\* ------------------------------------------------------------------------
\* Bounds of the model
\* ------------------------------------------------------------------------
MaxTextLen == 7
MaxSize == 3
MaxStride == 4
MaxReq == 2
MaxDocWords == 3
MaxPatChunks == 2

\* chunkSize := 100, chunkStride := 80 (HandleUpload)
DefaultChunkSize == 100
DefaultChunkStride == 80

\* ------------------------------------------------------------------------
\* Texts
\* ------------------------------------------------------------------------
Letters == {"a"}
Spaces == {" ", "\n"}
Chars == Letters \cup Spaces

\* unicode.IsSpace, as strings.Fields uses it
IsSpaceBlankOnly(c) == c = " "
IsSpace(c) == c \in Spaces

RECURSIVE TextsOfLen(_)
TextsOfLen(n) ==
  IF n = 0 THEN {<<>>}
  ELSE {Append(t, c) : t \in TextsOfLen(n - 1), c \in Chars}

Texts == UNION {TextsOfLen(n) : n \in 0..MaxTextLen}

\* strings.Fields: the maximal runs of non-space characters, in order.
\* cur is the word being scanned, acc the words already closed.
RECURSIVE FieldsFrom(_, _, _, _)
FieldsFrom(text, i, cur, acc) ==
  IF i > Len(text)
  THEN IF cur = <<>> THEN acc ELSE Append(acc, cur)
  ELSE IF IsSpace(text[i])
       THEN FieldsFrom(text, i + 1, <<>>, IF cur = <<>> THEN acc ELSE Append(acc, cur))
       ELSE FieldsFrom(text, i + 1, Append(cur, text[i]), acc)

Fields(text) == FieldsFrom(text, 1, <<>>, <<>>)

\* strings.Join(elems, sep)
RECURSIVE Join(_, _)
Join(elems, sep) ==
  IF Len(elems) = 0 THEN <<>>
  ELSE IF Len(elems) = 1 THEN elems[1]
  ELSE elems[1] \o sep \o Join(Tail(elems), sep)

\* ------------------------------------------------------------------------
\* ChunkText (document.go 409-428)
\* ------------------------------------------------------------------------
\* end := i + size
WindowEndWide(i, size) == i + size + 1
WindowEnd(i, size) == i + size

\* if end > len(words) { end = len(words) }
ClipEnd(end, n) == IF end > n THEN n ELSE end

\* strings.Join(words[i:end], " ")
JoinWordsTight(ws) == Join(ws, <<>>)
JoinWords(ws) == Join(ws, <<" ">>)

\* if end == len(words) { break }
ReachedEndNever(end, n) == FALSE
ReachedEnd(end, n) == end = n

\* i += stride
NextStartSkip(i, stride) == i + stride + 1
NextStartStuck(i, stride) == i
NextStart(i, stride) == i + stride

\* for ...; i < len(words); ...
LoopRunsIncl(i, n) == i <= n
LoopRuns(i, n) == i < n

\* the loop of ChunkText from word index i (0-based), chunks emitted so far
RECURSIVE ChunkLoop(_, _, _, _, _)
ChunkLoop(words, size, stride, i, chunks) ==
  IF ~LoopRuns(i, Len(words)) THEN chunks
  ELSE LET end == ClipEnd(WindowEnd(i, size), Len(words))
           chunks2 == Append(chunks, JoinWords(SubSeq(words, i + 1, end)))
       IN IF ReachedEnd(end, Len(words)) THEN chunks2
          ELSE ChunkLoop(words, size, stride, NextStart(i, stride), chunks2)

ChunkText(text, size, stride) ==
  LET words == Fields(text)
  IN IF Len(words) = 0 THEN <<>>
     ELSE ChunkLoop(words, size, stride, 0, <<>>)

\* ------------------------------------------------------------------------
\* State
\* ------------------------------------------------------------------------
VARIABLES
  ctText,     \* ChunkText: the argument text
  ctSize,     \* ChunkText: the argument size
  ctStride,   \* ChunkText: the argument stride
  ctChunks,   \* ChunkText: the returned chunks
  ctDone,     \* ChunkText has returned
  ctI,        \* ChunkText: the loop index i (0-based), where the loop is run step by step
  stCol,      \* vector store: identifier of the collection named Collection, 0 if absent
  stNextCol,  \* vector store: the next fresh collection identifier
  stRecords,  \* vector store: the records held, each under a collection identifier
  nextUUID,   \* the next value uuid.New() yields
  kind,       \* per request: "none", "upload", "search", "reset", "health" or "denied"
  pc,         \* per request: the upstream call its handler makes next, or "idle", "done", "past"
  upl,        \* per upload: filename, content, chunkSize, chunkStride, chunks, i (0-based loop index)
  colID,      \* per request: colID returned by getOrCreateCollection (0 is "")
  result,     \* per request: HTTP status answered, 0 while running
  outcomes,   \* per upload: for each chunk processed, how its loop iteration ended
  written,    \* per upload: the records the store accepted from it, in order
  calls,      \* per request: the upstream calls of the current chunk (or request)
  lastCall,   \* the most recent upstream call: the request making it, and the response
  resolves,   \* the getOrCreateCollection calls completed last, since the last reset
  resets,     \* the last two HandleReset calls with no other request since
  form,       \* SpecForm: the form values chunkSize and chunkStride of the upload
  authHeader, \* SpecAuth: the Authorization header of the request that arrived last
  pat         \* SpecEquiv: how the upstream services answer the calls of the upload

ctVars == <<ctText, ctSize, ctStride, ctChunks, ctDone, ctI>>
inVars == <<form, authHeader, pat>>
storeVars == <<stCol, stNextCol, stRecords>>
reqVars == <<nextUUID, kind, pc, upl, colID, result, outcomes, written, calls>>
sysVars == <<stCol, stNextCol, stRecords,
             nextUUID, kind, pc, upl, colID, result, outcomes, written, calls,
             lastCall, resolves, resets>>
vars == <<ctText, ctSize, ctStride, ctChunks, ctDone, ctI,
          stCol, stNextCol, stRecords,
          nextUUID, kind, pc, upl, colID, result, outcomes, written, calls,
          lastCall, resolves, resets,
          form, authHeader, pat>>

Reqs == 1..MaxReq
NoResolves ==
  [prev |-> 0,
   last |-> [id |-> 0, err |-> FALSE, sentCreate |-> FALSE, created |-> FALSE,
             healthy |-> FALSE]]
NoCall == [req |-> 0, op |-> "none", resp |-> [net |-> FALSE, status |-> 0, decodes |-> FALSE, id |-> 0]]
NoUpload ==
  [filename |-> <<>>, readErr |-> FALSE, content |-> <<>>,
   chunkSize |-> 0, chunkStride |-> 0, chunks |-> <<>>, i |-> 0]

\* how the upstream services answer: the store's answer to every GET and to
\* every POST of the collection, the answers to the embedding and to the add
\* request of each chunk, and the collection the store holds at the start
NoPattern == [col |-> 0, get |-> "ok", create |-> "ok", embed |-> <<>>, add |-> <<>>]

\* a request's form: r.FormValue("chunkSize"), r.FormValue("chunkStride")
NoForm == [chunkSize |-> <<>>, chunkStride |-> <<>>]

\* a record the store holds from an earlier run of the server
OldRecord ==
  [id |-> 1, col |-> 1, text |-> <<"a">>, source |-> "pdf",
   filename |-> <<"pdf", TRUE, 1>>, chunk_num |-> 1]

\* the state after NewHandler: no request received; the vector store is
\* empty, or holds the collection with one record from an earlier run
InitSys ==
  /\ stCol \in {0, 1}
  /\ stNextCol = stCol + 1
  /\ stRecords = IF stCol = 0 THEN {} ELSE {OldRecord}
  /\ nextUUID = stCol + 1
  /\ kind = [r \in Reqs |-> "none"]
  /\ pc = [r \in Reqs |-> "idle"]
  /\ upl = [r \in Reqs |-> NoUpload]
  /\ colID = [r \in Reqs |-> 0]
  /\ result = [r \in Reqs |-> 0]
  /\ outcomes = [r \in Reqs |-> <<>>]
  /\ written = [r \in Reqs |-> <<>>]
  /\ calls = [r \in Reqs |-> <<>>]
  /\ lastCall = NoCall
  /\ resolves = NoResolves
  /\ resets = <<>>

\* ------------------------------------------------------------------------
\* SpecChunk: one call of ChunkText on every bounded input
\* ------------------------------------------------------------------------
\* outside SpecForm and SpecAuth: no form values, and the header of a
\* request that Middleware lets through
InitIn ==
  /\ form = NoForm
  /\ authHeader = <<"Bearer ", "good.jwt">>
  /\ pat = NoPattern

InitChunk ==
  /\ ctText \in Texts
  /\ ctSize \in 1..MaxSize
  /\ ctStride \in 1..MaxStride
  /\ ctChunks = <<>>
  /\ ctDone = FALSE
  /\ ctI = 0
  /\ InitSys
  /\ InitIn

CallChunkText ==
  /\ ~ctDone
  /\ ctChunks' = ChunkText(ctText, ctSize, ctStride)
  /\ ctDone' = TRUE
  /\ UNCHANGED <<ctText, ctSize, ctStride, ctI>>
  /\ UNCHANGED sysVars
  /\ UNCHANGED inVars

NextChunk == CallChunkText

SpecChunk == InitChunk /\ [][NextChunk]_vars

\* ------------------------------------------------------------------------
\* Uploaded files and form values
\* ------------------------------------------------------------------------
RECURSIVE WordOf(_)
WordOf(k) == IF k = 0 THEN <<>> ELSE Append(WordOf(k - 1), "a")

\* the text of a readable document of n words: word k is k letters long,
\* the words are separated by line breaks and the text starts with a blank
RECURSIVE DocText(_)
DocText(n) == IF n = 0 THEN <<" ">> ELSE DocText(n - 1) \o <<"\n">> \o WordOf(n)

\* texts without a word other than DocText(0): the empty text, and several
\* kinds of white space
BlankTexts == {<<>>, <<"\n", " ">>}

\* the files uploaded: an unreadable one, documents of 0..MaxDocWords words,
\* and documents of the blank texts
Files ==
  {[readable |-> FALSE, words |-> 0, text |-> <<>>]}
    \cup {[readable |-> TRUE, words |-> n, text |-> DocText(n)] : n \in 0..MaxDocWords}
    \cup {[readable |-> TRUE, words |-> 0, text |-> t] : t \in BlankTexts}

FileName(file) == <<"pdf", file.readable, file.words>>

\* ReadPDF: the text of the document, or an error
ReadPDF(file) ==
  [err |-> ~file.readable,
   content |-> IF file.readable THEN file.text ELSE <<>>]

Digits == <<"0", "1", "2", "3", "4", "5", "6", "7", "8", "9">>
IsDigit(c) == \E d \in 1..10 : Digits[d] = c
DigitVal(c) == (CHOOSE d \in 1..10 : Digits[d] = c) - 1

RECURSIVE ParseDigits(_, _, _)
ParseDigits(s, i, acc) ==
  IF i > Len(s) THEN [err |-> FALSE, val |-> acc]
  ELSE IF ~IsDigit(s[i]) THEN [err |-> TRUE, val |-> 0]
  ELSE ParseDigits(s, i + 1, acc * 10 + DigitVal(s[i]))

\* strconv.Atoi: an optional sign, then one or more decimal digits
Atoi(s) ==
  LET signed == Len(s) > 0 /\ s[1] \in {"+", "-"}
      body == IF signed THEN Tail(s) ELSE s
      p == ParseDigits(body, 1, 0)
  IN IF Len(body) = 0 \/ p.err THEN [err |-> TRUE, val |-> 0]
     ELSE [err |-> FALSE, val |-> IF signed /\ s[1] = "-" THEN 0 - p.val ELSE p.val]

\* HandleUpload: a chunk parameter is the form value when it is supplied and
\* parses as a positive integer, and the default otherwise
ChunkParamOneDefault(formValue, default) ==
  IF formValue # <<>>
  THEN LET parsed == Atoi(formValue)
       IN IF ~parsed.err /\ parsed.val > 0 THEN parsed.val ELSE DefaultChunkSize
  ELSE DefaultChunkSize

ChunkParam(formValue, default) ==
  IF formValue # <<>>
  THEN LET parsed == Atoi(formValue)
       IN IF ~parsed.err /\ parsed.val > 0 THEN parsed.val ELSE default
  ELSE default

\* the form values uploads are sent with
FormValues == {<<>>, <<"1">>, <<"0">>, <<"x">>}

\* the form values the uploads of SpecForm are sent with: absent, integers
\* with and without sign or leading zero, and texts that are no integer
FormTexts ==
  {<<>>, <<"1">>, <<"0">>, <<"x">>, <<"-", "1">>, <<"+", "2">>, <<"1", "2">>,
   <<"0", "3">>, <<"1", "x">>, <<" ", "1">>, <<"1", ".", "5">>}

\* the forms of the uploads of SpecForm
Forms == [chunkSize : FormTexts, chunkStride : FormTexts]

\* the query strings searches are sent with
Queries == {<<>>, <<"a">>}

\* ------------------------------------------------------------------------
\* Authorization (auth/handler.go)
\* ------------------------------------------------------------------------
\* JWT_SECRET, by default
JWTSecret == "change_me_in_prod"

\* token strings: signed with the secret and in date, signed with the
\* secret and expired, signed with another key, and no JWT at all
Tokens == {"good.jwt", "expired.jwt", "forged.jwt", "garbage"}

\* what a token string holds: whether it has the form of a JWT, the key its
\* signature was made with, and whether its expiry time has passed
TokenOf(tok) ==
  CASE tok = "good.jwt" -> [jwt |-> TRUE, key |-> JWTSecret, expired |-> FALSE]
    [] tok = "expired.jwt" -> [jwt |-> TRUE, key |-> JWTSecret, expired |-> TRUE]
    [] tok = "forged.jwt" -> [jwt |-> TRUE, key |-> "other", expired |-> FALSE]
    [] OTHER -> [jwt |-> FALSE, key |-> "", expired |-> FALSE]

\* An Authorization header is the sequence of its parts: a scheme with its
\* blank, then the token string.  <<>> is the header that is absent or empty.
Headers ==
  {<<>>, <<"Bearer ">>, <<"good.jwt">>, <<"Basic ", "good.jwt">>, <<"bearer ", "good.jwt">>}
    \cup {<<"Bearer ", tok>> : tok \in Tokens}

\* strings.TrimPrefix(s, prefix)
TrimPrefixAny(s, prefix) == IF Len(s) > 1 THEN Tail(s) ELSE s
TrimPrefix(s, prefix) == IF Len(s) > 0 /\ s[1] = prefix THEN Tail(s) ELSE s

\* jwt.ParseWithClaims(tokenString, claims, keyFunc) with keyFunc returning
\* the secret: err for a string that is no JWT, a signature that the secret
\* does not verify, or an expired token; token.Valid otherwise
ParseWithClaims(tokenString, secret) ==
  IF Len(tokenString) # 1 \/ ~TokenOf(tokenString[1]).jwt
  THEN [err |-> TRUE, valid |-> FALSE]
  ELSE LET t == TokenOf(tokenString[1])
           ok == t.key = secret /\ ~t.expired
       IN [err |-> ~ok, valid |-> ok]

\* Middleware: the status it answers with, or 0 when it calls next
Middleware(h) ==
  IF h = <<>> THEN 401
  ELSE LET tokenString == TrimPrefix(h, "Bearer ")
       IN IF tokenString = h THEN 401
          ELSE LET parsed == ParseWithClaims(tokenString, JWTSecret)
               IN IF parsed.err \/ ~parsed.valid THEN 401 ELSE 0

\* ------------------------------------------------------------------------
\* Upstream services: embedding provider and vector store
\* ------------------------------------------------------------------------
\* A response: net is FALSE when the call failed at transport level (no
\* response; the request had no effect), decodes tells whether the body is
\* JSON that json.Decode accepts for the handler's struct, id is the "id"
\* field of the body (0: "").  The body of an error status is a JSON error
\* object: it decodes, and holds none of the fields the handler reads.
NetErr == [net |-> FALSE, status |-> 0, decodes |-> FALSE, id |-> 0]
Resp(status, decodes, id) == [net |-> TRUE, status |-> status, decodes |-> decodes, id |-> id]

\* What an upstream service does with one request: answer as its interface
\* says ("ok"; "alt": with its other success status), or fail.  A response
\* with a success status means the service carried the request out.
Behaviours == {"ok", "alt", "neterr", "http500", "badbody", "emptyid"}
Performs(b) == b \in {"ok", "alt", "badbody", "emptyid"}

\* the body of a response whose status says success
Body(status, b, id) ==
  Resp(status, b # "badbody", IF b \in {"badbody", "emptyid"} THEN 0 ELSE id)

Failure(b) == IF b = "neterr" THEN NetErr ELSE Resp(500, TRUE, 0)

\* POST /api/embeddings
EmbedResponse(b) ==
  IF Performs(b) THEN Body(200, b, 0) ELSE Failure(b)

\* GET /collections/{name}, of a store whose collection of the name is col
GetResponseIn(col, b) ==
  IF ~Performs(b) THEN Failure(b)
  ELSE IF col = 0 THEN Resp(404, TRUE, 0)
  ELSE Body(200, b, col)

GetResponse(b) == GetResponseIn(stCol, b)

\* POST /collections {name}: collection names are unique
CreateCreatesAgain(b) == Performs(b)
CreateCreatesInAny(col, b) == Performs(b)
CreateCreatesIn(col, b) == Performs(b) /\ col = 0
CreateCreates(b) == CreateCreatesIn(stCol, b)
CreateResponseIn(col, next, b) ==
  IF ~Performs(b) THEN Failure(b)
  ELSE IF col # 0 THEN Resp(409, TRUE, 0)
  ELSE Body(IF b = "alt" THEN 201 ELSE 200, b, next)

CreateResponse(b) == CreateResponseIn(stCol, stNextCol, b)

\* DELETE /collections/{name}
DeleteDeletes(b) == Performs(b) /\ stCol # 0
DeleteResponse(b) ==
  IF ~Performs(b) THEN Failure(b)
  ELSE IF stCol = 0 THEN Resp(404, TRUE, 0)
  ELSE Body(IF b = "alt" THEN 204 ELSE 200, b, 0)

\* POST /collections/{id}/add
AddAddsIn(col, b, id) == Performs(b) /\ id # 0 /\ id = col
AddAdds(b, id) == AddAddsIn(stCol, b, id)
AddResponse(b, id) ==
  IF ~Performs(b) THEN Failure(b)
  ELSE IF ~(id # 0 /\ id = stCol) THEN Resp(404, TRUE, 0)
  ELSE Body(IF b = "alt" THEN 200 ELSE 201, b, 0)

\* POST /collections/{id}/query
QueryResponse(b, id) ==
  IF ~Performs(b) THEN Failure(b)
  ELSE IF ~(id # 0 /\ id = stCol) THEN Resp(404, TRUE, 0)
  ELSE Body(200, b, 0)

\* ------------------------------------------------------------------------
\* The handlers' decisions on a response
\* ------------------------------------------------------------------------
\* getEmbedding: error on transport failure, status other than 200, or a
\* body that does not decode
getEmbeddingErrNever(resp) == FALSE
getEmbeddingErr(resp) == ~resp.net \/ resp.status # 200 \/ ~resp.decodes

\* getOrCreateCollection, step 1 (GET): "found" returns res.ID, "error"
\* returns a decode error, "create" falls through to step 2
GetOutcomeNever(resp) == "create"
GetOutcomeAnyStatus(resp) ==
  IF resp.net
  THEN IF ~resp.decodes THEN "error" ELSE "found"
  ELSE "create"

GetOutcome(resp) ==
  IF resp.net /\ resp.status = 200
  THEN IF ~resp.decodes THEN "error" ELSE "found"
  ELSE "create"

\* getOrCreateCollection, step 2 (POST): error on transport failure, status
\* other than 200 and 201, undecodable body, or empty id
CreateErrAlways(resp) == TRUE
CreateErr(resp) ==
  \/ ~resp.net
  \/ resp.status \notin {200, 201}
  \/ ~resp.decodes
  \/ resp.id = 0

\* addToChroma: error on transport failure or status >= 300
addToChromaErrParsed(resp) == ~resp.net \/ resp.status >= 300 \/ ~resp.decodes
addToChromaErr(resp) == ~resp.net \/ resp.status >= 300

\* queryChroma: error on transport failure, status >= 300 or undecodable body
queryChromaErrLax(resp) == ~resp.net \/ ~resp.decodes
queryChromaErr(resp) == ~resp.net \/ resp.status >= 300 \/ ~resp.decodes

\* HandleReset: success on status 200 or 404
ResetOKStrict(resp) == resp.net /\ resp.status = 200
ResetOK(resp) == resp.net /\ (resp.status = 200 \/ resp.status = 404)

\* processPDF: "if err != nil { return ... }" after ReadPDF
ReadFailedIgnored(rd) == FALSE
ReadFailed(rd) == rd.err

\* processPDF: the loop index after an iteration that ended in "continue"
\* (its chunk failed), given the number n of chunks
RetryAt(i, n) == i
BreakAt(i, n) == n
ContinueAt(i, n) == i + 1

\* processPDF's return value once the loop has ended: nil
LoopErrStrict(outs) == \E k \in 1..Len(outs) : outs[k] # "stored"
LoopErr(outs) == FALSE

\* addToChroma: id := uuid.New().String()
NewUUIDStale == nextUUID - 1
NewUUID == nextUUID

\* the status a handler answers with
HttpStatus(err) == IF err THEN 500 ELSE 200

\* ------------------------------------------------------------------------
\* Handlers
\* ------------------------------------------------------------------------
\* one upstream call of the current chunk (or request): the operation,
\* whether the handler took it as failed, and whether the service answered
\* as its interface says
Call(op, err, b) == [op |-> op, err |-> err, healthy |-> b \in {"ok", "alt"}]

\* a completed getOrCreateCollection: the identifier returned, whether it
\* returned an error, whether it sent a create request, whether the store
\* created the collection, and whether the store answered as its interface says
Resolved(id, err, sentCreate, created, healthy) ==
  [id |-> id, err |-> err, sentCreate |-> sentCreate, created |-> created,
   healthy |-> healthy]

\* resolves.last is the last getOrCreateCollection completed; resolves.prev is
\* the identifier the one before it returned if that one created the
\* collection, and 0 otherwise
ResolveCompletes(e) ==
  [prev |-> IF resolves.last.created /\ ~resolves.last.err THEN resolves.last.id ELSE 0,
   last |-> e]

\* resets holds the last two HandleReset calls with no other request since
LastTwo(seq, e) == IF Len(seq) < 2 THEN Append(seq, e) ELSE <<seq[2], e>>

\* the handler of request r returns, answering with status
Answer(r, status) ==
  /\ pc' = [pc EXCEPT ![r] = "done"]
  /\ result' = [result EXCEPT ![r] = status]

\* processPDF: the loop iteration of upload r ends with outcome, its index
\* moves to i2; after the last chunk processPDF returns and HandleUpload answers
ChunkEnds(r, outcome, i2) ==
  LET outs == Append(outcomes[r], outcome)
  IN /\ outcomes' = [outcomes EXCEPT ![r] = outs]
     /\ upl' = [upl EXCEPT ![r].i = i2]
     /\ IF i2 < Len(upl[r].chunks)
        THEN /\ pc' = [pc EXCEPT ![r] = "embed"]
             /\ UNCHANGED result
        ELSE Answer(r, HttpStatus(LoopErr(outs)))

\* getOrCreateCollection returned an error to addToChroma or queryChroma
ResolveFails(r) ==
  IF kind[r] = "upload"
  THEN ChunkEnds(r, "writeFail", ContinueAt(upl[r].i, Len(upl[r].chunks)))
  ELSE Answer(r, HttpStatus(TRUE)) /\ UNCHANGED <<upl, outcomes>>

\* getOrCreateCollection returned id to addToChroma or queryChroma
ResolveReturns(r, id) ==
  /\ colID' = [colID EXCEPT ![r] = id]
  /\ pc' = [pc EXCEPT ![r] = IF kind[r] = "upload" THEN "add" ELSE "query"]
  /\ UNCHANGED <<upl, outcomes, result>>

\* a request arrives at r: what is remembered of the requests answered
\* before (their locals and the record of their calls) is dropped, their
\* kind and answer are kept, and they move from "done" to "past"
Forget(f, r, init) == [q \in Reqs |-> IF q # r /\ pc[q] = "done" THEN init ELSE f[q]]

\* request r arrives and its handler runs to its first upstream call
\* (status = 0), or to its answer
Arrive(r, next, status) ==
  /\ pc' = [Forget(pc, r, "past") EXCEPT ![r] = IF status = 0 THEN next ELSE "done"]
  /\ result' = [result EXCEPT ![r] = status]

\* HandleUpload up to and including processPDF's ReadPDF and ChunkText
StartUpload(r, file, cs, cst) ==
  /\ pc[r] = "idle"
  /\ LET chunkSize == ChunkParam(cs, DefaultChunkSize)
         chunkStride == ChunkParam(cst, DefaultChunkStride)
         rd == ReadPDF(file)
         chunks == IF ReadFailed(rd) THEN <<>>
                   ELSE ChunkText(rd.content, chunkSize, chunkStride)
     IN /\ kind' = [kind EXCEPT ![r] = "upload"]
        /\ upl' = [Forget(upl, r, NoUpload) EXCEPT ![r] =
                     [filename |-> FileName(file), readErr |-> rd.err,
                      content |-> rd.content,
                      chunkSize |-> chunkSize, chunkStride |-> chunkStride,
                      chunks |-> chunks, i |-> 0]]
        /\ Arrive(r, "embed",
                  IF ReadFailed(rd) THEN HttpStatus(TRUE)
                  ELSE IF Len(chunks) = 0 THEN HttpStatus(LoopErr(<<>>))
                  ELSE 0)
  /\ colID' = Forget(colID, r, 0)
  /\ outcomes' = Forget(outcomes, r, <<>>)
  /\ written' = Forget(written, r, <<>>)
  /\ calls' = Forget(calls, r, <<>>)
  /\ lastCall' = NoCall
  /\ resets' = <<>>
  /\ UNCHANGED <<storeVars, nextUUID, resolves>>

\* HandleSearch up to the call of getEmbedding
StartSearch(r, q) ==
  /\ pc[r] = "idle"
  /\ kind' = [kind EXCEPT ![r] = "search"]
  /\ Arrive(r, "embed", IF q = <<>> THEN 400 ELSE 0)
  /\ upl' = Forget(upl, r, NoUpload)
  /\ colID' = Forget(colID, r, 0)
  /\ outcomes' = Forget(outcomes, r, <<>>)
  /\ written' = Forget(written, r, <<>>)
  /\ calls' = Forget(calls, r, <<>>)
  /\ lastCall' = NoCall
  /\ resets' = <<>>
  /\ UNCHANGED <<storeVars, nextUUID, resolves>>

\* getEmbedding, called by processPDF for chunk i+1 or by HandleSearch
GetEmbedding(r, b) ==
  /\ pc[r] = "embed"
  /\ LET resp == EmbedResponse(b)
         err == getEmbeddingErr(resp)
     IN /\ calls' = [calls EXCEPT ![r] = <<Call("embed", err, b)>>]
        /\ lastCall' = [req |-> r, op |-> "embed", resp |-> resp]
        /\ IF ~err
           THEN /\ pc' = [pc EXCEPT ![r] = "get"]
                /\ UNCHANGED <<upl, outcomes, result>>
           ELSE IF kind[r] = "upload"
           THEN ChunkEnds(r, "embedFail", ContinueAt(upl[r].i, Len(upl[r].chunks)))
           ELSE Answer(r, HttpStatus(TRUE)) /\ UNCHANGED <<upl, outcomes>>
  /\ UNCHANGED <<storeVars, nextUUID, kind, colID, written, resolves, resets>>

\* getOrCreateCollection, step 1: GET the collection by name
GetCollection(r, b) ==
  /\ pc[r] = "get"
  /\ LET resp == GetResponse(b)
         out == GetOutcome(resp)
         healthy == b \in {"ok", "alt"}
     IN /\ calls' = [calls EXCEPT ![r] = Append(@, Call("get", out = "error", b))]
        /\ lastCall' = [req |-> r, op |-> "get", resp |-> resp]
        /\ CASE out = "found" ->
                  /\ ResolveReturns(r, resp.id)
                  /\ resolves' = ResolveCompletes(Resolved(resp.id, FALSE, FALSE, FALSE, healthy))
             [] out = "error" ->
                  /\ ResolveFails(r)
                  /\ resolves' = ResolveCompletes(Resolved(0, TRUE, FALSE, FALSE, healthy))
                  /\ UNCHANGED colID
             [] out = "create" ->
                  /\ pc' = [pc EXCEPT ![r] = "create"]
                  /\ UNCHANGED <<upl, outcomes, result, colID, resolves>>
  /\ UNCHANGED <<storeVars, nextUUID, kind, written, resets>>

\* getOrCreateCollection, step 2: POST a new collection of that name
CreateCollection(r, b) ==
  /\ pc[r] = "create"
  /\ LET resp == CreateResponse(b)
         err == CreateErr(resp)
         healthy == b \in {"ok", "alt"} /\ calls[r][Len(calls[r])].healthy
     IN /\ calls' = [calls EXCEPT ![r] = Append(@, Call("create", err, b))]
        /\ lastCall' = [req |-> r, op |-> "create", resp |-> resp]
        /\ resolves' = ResolveCompletes(
                         Resolved(IF err THEN 0 ELSE resp.id, err, TRUE,
                                  CreateCreates(b), healthy))
        /\ IF CreateCreates(b)
           THEN /\ stCol' = stNextCol
                /\ stNextCol' = stNextCol + 1
                /\ resets' = <<>>
           ELSE UNCHANGED <<stCol, stNextCol, resets>>
        /\ IF err THEN ResolveFails(r) /\ UNCHANGED colID
           ELSE ResolveReturns(r, resp.id)
  /\ UNCHANGED <<stRecords, nextUUID, kind, written>>

\* the chunk number processPDF passes to addToChroma for the chunk at index
\* i of the range loop (i+1), here numbered by the records written so far
ChunkNumRenumbered(r) == Len(written[r]) + 1
ChunkNum(r) == upl[r].i + 1

\* addToChroma after getOrCreateCollection: POST one record under a new uuid
AddToChroma(r, b) ==
  /\ pc[r] = "add"
  /\ LET u == upl[r]
         rec == [id |-> NewUUID, col |-> colID[r], text |-> u.chunks[u.i + 1],
                 source |-> "pdf", filename |-> u.filename, chunk_num |-> ChunkNum(r)]
         resp == AddResponse(b, colID[r])
         err == addToChromaErr(resp)
     IN /\ nextUUID' = nextUUID + 1
        /\ calls' = [calls EXCEPT ![r] = Append(@, Call("add", err, b))]
        /\ lastCall' = [req |-> r, op |-> "add", resp |-> resp]
        /\ IF AddAdds(b, colID[r])
           THEN /\ stRecords' = stRecords \cup {rec}
                /\ written' = [written EXCEPT ![r] = Append(@, rec)]
                /\ resets' = <<>>
           ELSE UNCHANGED <<stRecords, written, resets>>
        /\ IF err THEN ChunkEnds(r, "writeFail", ContinueAt(u.i, Len(u.chunks)))
           ELSE ChunkEnds(r, "stored", u.i + 1)
  /\ UNCHANGED <<stCol, stNextCol, kind, colID, resolves>>

\* queryChroma after getOrCreateCollection, and HandleSearch's answer
QueryChroma(r, b) ==
  /\ pc[r] = "query"
  /\ LET resp == QueryResponse(b, colID[r])
         err == queryChromaErr(resp)
     IN /\ calls' = [calls EXCEPT ![r] = Append(@, Call("query", err, b))]
        /\ lastCall' = [req |-> r, op |-> "query", resp |-> resp]
        /\ Answer(r, HttpStatus(err))
  /\ UNCHANGED <<storeVars, nextUUID, kind, upl, colID, outcomes, written, resolves, resets>>

\* HandleReset: DELETE the collection by name
HandleReset(r, b) ==
  /\ pc[r] = "idle"
  /\ LET resp == DeleteResponse(b)
         ok == ResetOK(resp)
     IN /\ kind' = [kind EXCEPT ![r] = "reset"]
        /\ calls' = [Forget(calls, r, <<>>) EXCEPT ![r] = <<Call("delete", ~ok, b)>>]
        /\ lastCall' = [req |-> r, op |-> "delete", resp |-> resp]
        /\ IF DeleteDeletes(b)
           THEN /\ stCol' = 0
                /\ stRecords' = {x \in stRecords : x.col # stCol}
           ELSE UNCHANGED <<stCol, stRecords>>
        /\ resets' = LastTwo(resets,
                       [net |-> resp.net, status |-> resp.status,
                        answer |-> HttpStatus(~ok), changed |-> DeleteDeletes(b)])
        /\ Arrive(r, "done", HttpStatus(~ok))
  /\ upl' = Forget(upl, r, NoUpload)
  /\ colID' = Forget(colID, r, 0)
  /\ outcomes' = Forget(outcomes, r, <<>>)
  /\ written' = Forget(written, r, <<>>)
  /\ resolves' = NoResolves
  /\ UNCHANGED <<stNextCol, nextUUID>>

\* request r is answered with status and without an upstream call: by
\* Middleware, which does not call next (k = "denied"), or by handleHealth
\* (k = "health")
AnswerAtOnce(r, k, status) ==
  /\ pc[r] = "idle"
  /\ kind' = [kind EXCEPT ![r] = k]
  /\ Arrive(r, "done", status)
  /\ upl' = Forget(upl, r, NoUpload)
  /\ colID' = Forget(colID, r, 0)
  /\ outcomes' = Forget(outcomes, r, <<>>)
  /\ written' = Forget(written, r, <<>>)
  /\ calls' = Forget(calls, r, <<>>)
  /\ lastCall' = NoCall
  /\ resets' = <<>>
  /\ UNCHANGED <<storeVars, nextUUID, resolves>>

NoneRunning == \A r \in Reqs : pc[r] \in {"idle", "done", "past"}

\* requests are numbered in the order they arrive
IsNext(r) == pc[r] = "idle" /\ \A q \in Reqs : q < r => pc[q] # "idle"

InitChunkIdle ==
  /\ ctText = <<>>
  /\ ctSize = 1
  /\ ctStride = 1
  /\ ctChunks = <<>>
  /\ ctDone = FALSE
  /\ ctI = 0

Init == InitChunkIdle /\ InitSys /\ InitIn

\* Spec: requests are served one after the other, the upstream services
\* behave in any way
Upload(r) ==
  /\ NoneRunning
  /\ IsNext(r)
  /\ \E file \in Files, cs \in FormValues, cst \in FormValues : StartUpload(r, file, cs, cst)
  /\ UNCHANGED <<ctVars, inVars>>

Search(r) ==
  /\ NoneRunning
  /\ IsNext(r)
  /\ \E q \in Queries : StartSearch(r, q)
  /\ UNCHANGED <<ctVars, inVars>>

Reset(r) ==
  /\ NoneRunning
  /\ IsNext(r)
  /\ \E b \in Behaviours : HandleReset(r, b)
  /\ UNCHANGED <<ctVars, inVars>>

Embed(r) == (\E b \in Behaviours : GetEmbedding(r, b)) /\ UNCHANGED <<ctVars, inVars>>
Get(r) == (\E b \in Behaviours : GetCollection(r, b)) /\ UNCHANGED <<ctVars, inVars>>
Create(r) == (\E b \in Behaviours : CreateCollection(r, b)) /\ UNCHANGED <<ctVars, inVars>>
Add(r) == (\E b \in Behaviours : AddToChroma(r, b)) /\ UNCHANGED <<ctVars, inVars>>
Query(r) == (\E b \in Behaviours : QueryChroma(r, b)) /\ UNCHANGED <<ctVars, inVars>>

Next ==
  \E r \in Reqs :
    \/ Upload(r)
    \/ Search(r)
    \/ Reset(r)
    \/ Embed(r)
    \/ Get(r)
    \/ Create(r)
    \/ Add(r)
    \/ Query(r)

Spec == Init /\ [][Next]_vars

\* ------------------------------------------------------------------------
\* The handlers against upstream services that answer as their interfaces say
\* ------------------------------------------------------------------------
EmbedOK(r) == GetEmbedding(r, "ok") /\ UNCHANGED <<ctVars, inVars>>
GetOK(r) == GetCollection(r, "ok") /\ UNCHANGED <<ctVars, inVars>>
CreateOK(r) == CreateCollection(r, "ok") /\ UNCHANGED <<ctVars, inVars>>
AddOK(r) == AddToChroma(r, "ok") /\ UNCHANGED <<ctVars, inVars>>
QueryOK(r) == QueryChroma(r, "ok") /\ UNCHANGED <<ctVars, inVars>>

\* ------------------------------------------------------------------------
\* SpecConc: requests served concurrently (net/http runs every handler in a
\* goroutine of its own), each upstream call being one step; documents are
\* chunked one word per chunk
\* ------------------------------------------------------------------------
ConcUpload(r) ==
  /\ IsNext(r)
  /\ \E file \in Files : StartUpload(r, file, <<"1">>, <<"1">>)
  /\ UNCHANGED <<ctVars, inVars>>

ConcSearch(r) ==
  /\ IsNext(r)
  /\ StartSearch(r, <<"a">>)
  /\ UNCHANGED <<ctVars, inVars>>

ConcReset(r) ==
  /\ IsNext(r)
  /\ HandleReset(r, "ok")
  /\ UNCHANGED <<ctVars, inVars>>

NextConc ==
  \E r \in Reqs :
    \/ ConcUpload(r)
    \/ ConcSearch(r)
    \/ ConcReset(r)
    \/ EmbedOK(r)
    \/ GetOK(r)
    \/ CreateOK(r)
    \/ AddOK(r)
    \/ QueryOK(r)

SpecConc == Init /\ [][NextConc]_vars

\* ------------------------------------------------------------------------
\* SpecEquiv: one upload of a document of one word per chunk, against every
\* pattern of upstream answers
\* ------------------------------------------------------------------------
Patterns ==
  UNION {[col : {0, 1}, get : {"ok", "http500", "badbody"}, create : {"ok", "http500"},
          embed : [1..n -> {"ok", "http500"}], add : [1..n -> {"ok", "http500"}]]
           : n \in 0..MaxPatChunks}

InitEquiv ==
  /\ InitChunkIdle
  /\ InitSys
  /\ form = NoForm
  /\ authHeader = <<"Bearer ", "good.jwt">>
  /\ pat \in Patterns
  /\ pat.col = stCol

EquivUpload(r) ==
  /\ r = 1
  /\ \E file \in Files :
       /\ file.readable
       /\ file.text = DocText(Len(pat.embed))
       /\ StartUpload(r, file, <<"1">>, <<"1">>)
  /\ UNCHANGED <<ctVars, inVars>>

EquivEmbed(r) ==
  /\ pc[r] = "embed"
  /\ GetEmbedding(r, pat.embed[upl[r].i + 1])
  /\ UNCHANGED <<ctVars, inVars>>

EquivGet(r) == GetCollection(r, pat.get) /\ UNCHANGED <<ctVars, inVars>>
EquivCreate(r) == CreateCollection(r, pat.create) /\ UNCHANGED <<ctVars, inVars>>

EquivAdd(r) ==
  /\ pc[r] = "add"
  /\ AddToChroma(r, pat.add[upl[r].i + 1])
  /\ UNCHANGED <<ctVars, inVars>>

NextEquiv ==
  \E r \in Reqs :
    \/ EquivUpload(r)
    \/ EquivEmbed(r)
    \/ EquivGet(r)
    \/ EquivCreate(r)
    \/ EquivAdd(r)

SpecEquiv == InitEquiv /\ [][NextEquiv]_vars

\* The ingest that resolves the collection once, before the chunk loop, and
\* reuses the identifier: its resolution, from a store whose collection is
\* col and whose next fresh identifier is next
OnceResolve(col, next, p) ==
  LET got == GetResponseIn(col, p.get)
      out == GetOutcome(got)
      made == CreateResponseIn(col, next, p.create)
      creates == CreateCreatesIn(col, p.create)
  IN CASE out = "found" -> [err |-> FALSE, id |-> got.id, col |-> col]
       [] out = "error" -> [err |-> TRUE, id |-> 0, col |-> col]
       [] out = "create" ->
            [err |-> CreateErr(made),
             id |-> IF CreateErr(made) THEN 0 ELSE made.id,
             col |-> IF creates THEN next ELSE col]

\* a stored record without its identifier
Content(x) ==
  [col |-> x.col, text |-> x.text, filename |-> x.filename, chunk_num |-> x.chunk_num]

\* its chunk loop from chunk k on: embed, then add under id
RECURSIVE OnceLoop(_, _, _, _, _, _, _)
OnceLoop(chunks, filename, p, id, col, k, records) ==
  IF k > Len(chunks) THEN records
  ELSE IF getEmbeddingErr(EmbedResponse(p.embed[k]))
       THEN OnceLoop(chunks, filename, p, id, col, k + 1, records)
       ELSE OnceLoop(chunks, filename, p, id, col, k + 1,
              IF AddAddsIn(col, p.add[k], id)
              THEN records \cup {[col |-> id, text |-> chunks[k],
                                   filename |-> filename, chunk_num |-> k]}
              ELSE records)

\* its answer and the store it leaves; a failed resolution is fatal
OnceIngest(chunks, filename, p) ==
  LET rs == OnceResolve(p.col, p.col + 1, p)
      old == IF p.col = 0 THEN {} ELSE {Content(OldRecord)}
  IN IF rs.err THEN [result |-> 500, col |-> rs.col, records |-> old]
     ELSE [result |-> 200, col |-> rs.col,
           records |-> OnceLoop(chunks, filename, p, rs.id, rs.col, 1, old)]

\* the answer of upload r and the store it leaves
CodeIngest(r) ==
  [result |-> result[r], col |-> stCol, records |-> {Content(x) : x \in stRecords}]

\* ------------------------------------------------------------------------
\* SpecAuth: requests with every Authorization header, to the routes that
\* main registers: /api/upload, /api/search and /api/reset behind
\* Middleware, /api/health without it
\* ------------------------------------------------------------------------
AuthUpload(r) ==
  /\ NoneRunning
  /\ IsNext(r)
  /\ \E h \in Headers :
       /\ authHeader' = h
       /\ IF Middleware(h) # 0 THEN AnswerAtOnce(r, "denied", Middleware(h))
          ELSE \E file \in Files : StartUpload(r, file, <<>>, <<"1">>)
  /\ UNCHANGED <<ctVars, form, pat>>

AuthSearch(r) ==
  /\ NoneRunning
  /\ IsNext(r)
  /\ \E h \in Headers :
       /\ authHeader' = h
       /\ IF Middleware(h) # 0 THEN AnswerAtOnce(r, "denied", Middleware(h))
          ELSE \E q \in Queries : StartSearch(r, q)
  /\ UNCHANGED <<ctVars, form, pat>>

AuthReset(r) ==
  /\ NoneRunning
  /\ IsNext(r)
  /\ \E h \in Headers :
       /\ authHeader' = h
       /\ IF Middleware(h) # 0 THEN AnswerAtOnce(r, "denied", Middleware(h))
          ELSE HandleReset(r, "ok")
  /\ UNCHANGED <<ctVars, form, pat>>

\* GET /api/health
handleHealth(r) ==
  /\ NoneRunning
  /\ IsNext(r)
  /\ \E h \in Headers :
       /\ authHeader' = h
       /\ AnswerAtOnce(r, "health", 200)
  /\ UNCHANGED <<ctVars, form, pat>>

NextAuth ==
  \E r \in Reqs :
    \/ AuthUpload(r)
    \/ AuthSearch(r)
    \/ AuthReset(r)
    \/ handleHealth(r)
    \/ EmbedOK(r)
    \/ GetOK(r)
    \/ CreateOK(r)
    \/ AddOK(r)
    \/ QueryOK(r)

SpecAuth == Init /\ [][NextAuth]_vars

\* ------------------------------------------------------------------------
\* SpecForm: one upload, sent with every pair of form values
\* ------------------------------------------------------------------------
InitForm ==
  /\ InitChunkIdle
  /\ InitSys
  /\ form \in Forms
  /\ authHeader = <<"Bearer ", "good.jwt">>
  /\ pat = NoPattern

UploadForm(r) ==
  /\ r = 1
  /\ \E file \in Files : StartUpload(r, file, form.chunkSize, form.chunkStride)
  /\ UNCHANGED <<ctVars, inVars>>

NextForm ==
  \E r \in Reqs :
    \/ UploadForm(r)
    \/ EmbedOK(r)
    \/ GetOK(r)
    \/ CreateOK(r)
    \/ AddOK(r)

SpecForm == InitForm /\ [][NextForm]_vars

\* ------------------------------------------------------------------------
\* SpecLive: one upload whose ChunkText loop runs one iteration per step,
\* the upstream services behave in any way, and every step that is enabled
\* is eventually taken (the handler keeps running, every call returns)
\* ------------------------------------------------------------------------
LiveFormValues == {<<>>, <<"1">>, <<"+", "2">>, <<"0">>}
LiveForms == [chunkSize : LiveFormValues, chunkStride : LiveFormValues]

InitLive ==
  /\ InitChunkIdle
  /\ InitSys
  /\ form \in LiveForms
  /\ authHeader = <<"Bearer ", "good.jwt">>
  /\ pat = NoPattern

\* HandleUpload up to processPDF's call of ChunkText
LiveUpload(r) ==
  /\ r = 1
  /\ pc[r] = "idle"
  /\ \E file \in Files :
       LET chunkSize == ChunkParam(form.chunkSize, DefaultChunkSize)
           chunkStride == ChunkParam(form.chunkStride, DefaultChunkStride)
           rd == ReadPDF(file)
       IN /\ kind' = [kind EXCEPT ![r] = "upload"]
          /\ upl' = [Forget(upl, r, NoUpload) EXCEPT ![r] =
                       [filename |-> FileName(file), readErr |-> rd.err,
                        content |-> rd.content,
                        chunkSize |-> chunkSize, chunkStride |-> chunkStride,
                        chunks |-> <<>>, i |-> 0]]
          /\ Arrive(r, "chunk", IF ReadFailed(rd) THEN HttpStatus(TRUE) ELSE 0)
          /\ IF ReadFailed(rd) THEN UNCHANGED ctVars
             ELSE /\ ctText' = rd.content
                  /\ ctSize' = chunkSize
                  /\ ctStride' = chunkStride
                  /\ ctChunks' = <<>>
                  /\ ctDone' = FALSE
                  /\ ctI' = 0
  /\ colID' = Forget(colID, r, 0)
  /\ outcomes' = Forget(outcomes, r, <<>>)
  /\ written' = Forget(written, r, <<>>)
  /\ calls' = Forget(calls, r, <<>>)
  /\ lastCall' = NoCall
  /\ resets' = <<>>
  /\ UNCHANGED <<storeVars, nextUUID, resolves, inVars>>

\* ChunkText: the test of the text's words and of the loop condition, and
\* one iteration of the loop; when ChunkText returns, processPDF enters its
\* loop over the chunks, or returns nil if there is none
ChunkStep(r) ==
  /\ pc[r] = "chunk"
  /\ LET words == Fields(ctText)
         n == Len(words)
         runs == n # 0 /\ LoopRuns(ctI, n)
         end == ClipEnd(WindowEnd(ctI, ctSize), n)
         chunks == IF runs
                   THEN Append(ctChunks, JoinWords(SubSeq(words, ctI + 1, end)))
                   ELSE ctChunks
         returns == ~runs \/ ReachedEnd(end, n)
     IN /\ ctChunks' = chunks
        /\ ctDone' = returns
        /\ ctI' = IF returns THEN ctI ELSE NextStart(ctI, ctStride)
        /\ IF returns
           THEN /\ upl' = [upl EXCEPT ![r].chunks = chunks]
                /\ IF Len(chunks) = 0 THEN Answer(r, HttpStatus(LoopErr(<<>>)))
                   ELSE /\ pc' = [pc EXCEPT ![r] = "embed"]
                        /\ UNCHANGED result
           ELSE UNCHANGED <<upl, pc, result>>
  /\ UNCHANGED <<ctText, ctSize, ctStride>>
  /\ UNCHANGED <<storeVars, nextUUID, kind, colID, outcomes, written, calls,
                 lastCall, resolves, resets, inVars>>

LiveProgress ==
  \E r \in Reqs :
    \/ ChunkStep(r)
    \/ Embed(r)
    \/ Get(r)
    \/ Create(r)
    \/ Add(r)

NextLive ==
  \/ \E r \in Reqs : LiveUpload(r)
  \/ LiveProgress

SpecLive == InitLive /\ [][NextLive]_vars /\ WF_vars(LiveProgress)

\* ------------------------------------------------------------------------
\* Properties of ChunkText (checked under SpecChunk)
\* ------------------------------------------------------------------------
ctWords == Fields(ctText)
ctN == Len(ctWords)
Min(a, b) == IF a < b THEN a ELSE b
Max(a, b) == IF a > b THEN a ELSE b
CeilDiv(a, b) == (a + b - 1) \div b

\* the count the specification states: ceil(max(0, N-S)/T) + 1
StatedCount == CeilDiv(Max(0, ctN - ctSize), ctStride) + 1

\* 0-based window k of the word list: words k*T .. min(k*T + S, N) - 1
WinStart(k) == k * ctStride
WinEnd(k) == Min(k * ctStride + ctSize, ctN)
WinText(k) == Join(SubSeq(ctWords, WinStart(k) + 1, WinEnd(k)), <<" ">>)

\* C7 (as stated): for every N, S > 0, T > 0 ChunkText returns
\* ceil(max(0, N-S)/T) + 1 chunks when N > 0 and none when N = 0.
C7_CountAsStated ==
  ctDone => Len(ctChunks) = (IF ctN = 0 THEN 0 ELSE StatedCount)

\* C7 (amended): ChunkText returns min(ceil(max(0, N-S)/T) + 1, ceil(N/T))
\* chunks when N > 0, which is the stated count whenever T <= S, and none
\* when N = 0.
C7_CountAmended ==
  ctDone =>
    /\ Len(ctChunks) =
         (IF ctN = 0 THEN 0 ELSE Min(StatedCount, CeilDiv(ctN, ctStride)))
    /\ (ctN > 0 /\ ctStride <= ctSize) => Len(ctChunks) = StatedCount

\* a call with T > S whose loop ran out of starts before a window reached
\* the end: fewer chunks than the stated count
C7_Witness ==
  /\ ctDone
  /\ ctStride > ctSize
  /\ Len(ctChunks) = 2
  /\ StatedCount = 3

\* every chunk k is window k of the word list joined by single spaces
ChunksAreWindows ==
  \A k \in 0..(Len(ctChunks) - 1) :
    /\ WinStart(k) < ctN
    /\ ctChunks[k + 1] = WinText(k)

\* C8 (as stated): chunk k is the words k*T .. min(k*T+S, N)-1 joined by
\* single spaces, and the sequence ends with the first window whose end
\* equals N.
C8_WindowsAsStated ==
  (ctDone /\ ctN > 0) =>
    /\ ChunksAreWindows
    /\ Len(ctChunks) >= 1
    /\ WinEnd(Len(ctChunks) - 1) = ctN
    /\ \A k \in 0..(Len(ctChunks) - 2) : WinEnd(k) # ctN

\* C8 (amended): chunk k is the words k*T .. min(k*T+S, N)-1 joined by single
\* spaces, and the sequence ends with the first window whose end equals N or
\* whose successor would start at or after N (k*T + T >= N, which comes first
\* only when T > S); no window is emitted after a window whose end equals N.
C8_WindowsAmended ==
  (ctDone /\ ctN > 0) =>
    /\ ChunksAreWindows
    /\ Len(ctChunks) >= 1
    /\ LET last == Len(ctChunks) - 1
       IN /\ WinEnd(last) = ctN \/ WinStart(last + 1) >= ctN
          /\ \A k \in 0..(last - 1) : WinEnd(k) # ctN /\ WinStart(k + 1) < ctN
    /\ ctStride <= ctSize => WinEnd(Len(ctChunks) - 1) = ctN

\* a call that stopped at a window reaching the end although the stride
\* would have placed another start before the end, with uneven white space
\* in the input
C8_Witness ==
  /\ ctDone
  /\ Len(ctChunks) = 2
  /\ WinEnd(1) = ctN
  /\ WinStart(2) < ctN
  /\ Len(ctText) > 2 * ctN - 1

\* C9: every chunk but the last holds exactly S words; the last holds at
\* least 1 and at most S words.
C9_ChunkSizes ==
  ctDone =>
    \A k \in 1..Len(ctChunks) :
      LET n == Len(Fields(ctChunks[k]))
      IN IF k < Len(ctChunks) THEN n = ctSize
         ELSE 1 <= n /\ n <= ctSize

\* a call returning a full chunk followed by a shorter last chunk
C9_Witness ==
  /\ ctDone
  /\ Len(ctChunks) = 2
  /\ Len(Fields(ctChunks[1])) = ctSize
  /\ Len(Fields(ctChunks[2])) < ctSize

\* C10: when T <= S, every word index 0..N-1 lies in the word range of at
\* least one returned chunk.
C10_Coverage ==
  (ctDone /\ ctStride <= ctSize) =>
    \A j \in 0..(ctN - 1) :
      \E k \in 0..(Len(ctChunks) - 1) :
        /\ ctChunks[k + 1] = WinText(k)
        /\ WinStart(k) <= j
        /\ j < WinEnd(k)

\* a call with overlapping windows (T < S) over several chunks
C10_Witness ==
  /\ ctDone
  /\ ctStride < ctSize
  /\ ctN = 4
  /\ Len(ctChunks) >= 2

\* C11: for N > 0 words and S > 0, a stride T >= N gives exactly one chunk,
\* holding the first min(S, N) words (all the words when S >= N).
C11_StrideBeyondEnd ==
  (ctDone /\ ctN > 0 /\ ctStride >= ctN) =>
    /\ ctChunks = <<Join(SubSeq(ctWords, 1, Min(ctSize, ctN)), <<" ">>)>>
    /\ ctSize >= ctN => Fields(ctChunks[1]) = ctWords

\* a call whose stride equals the number of words and whose size is smaller:
\* the only chunk holds the first S words and the rest are in no chunk
C11_Witness ==
  /\ ctDone
  /\ ctN = 3
  /\ ctStride = ctN
  /\ ctSize = 2
  /\ Len(ctChunks) = 1
  /\ Len(Fields(ctChunks[1])) = 2

\* ------------------------------------------------------------------------
\* Properties of the handlers (checked under Spec)
\* ------------------------------------------------------------------------
Uploads == {r \in Reqs : kind[r] = "upload" /\ pc[r] # "past"}
Searches == {r \in Reqs : kind[r] = "search" /\ pc[r] # "past"}

\* the 1-based positions of the chunks whose iteration ended in "stored"
RECURSIVE StoredNums(_, _)
StoredNums(outs, k) ==
  IF k > Len(outs) THEN <<>>
  ELSE (IF outs[k] = "stored" THEN <<k>> ELSE <<>>) \o StoredNums(outs, k + 1)

\* C1: the records an ingest writes to the store are exactly one per chunk
\* whose embedding call and store write both succeeded, in chunk order, and
\* every chunk of the sequence has been tried when the ingest returns.
C1_WrittenAreSucceeded ==
  \A r \in Uploads :
    LET nums == StoredNums(outcomes[r], 1)
    IN /\ Len(written[r]) = Len(nums)
       /\ \A k \in 1..Len(nums) :
            /\ written[r][k].chunk_num = nums[k]
            /\ written[r][k].text = upl[r].chunks[nums[k]]
       /\ (pc[r] = "done" /\ ~upl[r].readErr) => Len(outcomes[r]) = Len(upl[r].chunks)

\* an ingest of 3 chunks in which only chunk 2's embedding failed
C1_Witness ==
  \E r \in Uploads :
    /\ pc[r] = "done"
    /\ outcomes[r] = <<"stored", "embedFail", "stored">>
    /\ Len(written[r]) = 2
    /\ written[r][1].chunk_num = 1
    /\ written[r][2].chunk_num = 3

\* C2: ingest answers success whenever text extraction succeeded, whatever
\* failed per chunk, and answers an error only when extraction failed.
C2_SuccessUnlessExtraction ==
  \A r \in Uploads :
    pc[r] = "done" => (result[r] = 200 <=> ~upl[r].readErr)

\* an ingest of several chunks, none of them stored, answered with success
C2_Witness ==
  \E r \in Uploads :
    /\ pc[r] = "done"
    /\ result[r] = 200
    /\ Len(outcomes[r]) >= 2
    /\ "embedFail" \in {outcomes[r][k] : k \in 1..Len(outcomes[r])}
    /\ "writeFail" \in {outcomes[r][k] : k \in 1..Len(outcomes[r])}
    /\ written[r] = <<>>

\* C3: when text extraction fails the upload is answered with an error in
\* the same step: nothing is chunked, no upstream request is made and the
\* store is left as it was.
C3_ExtractionFailureAborts ==
  [][\A r \in Reqs :
       (pc[r] = "idle" /\ kind'[r] = "upload" /\ upl'[r].readErr) =>
         /\ pc'[r] = "done"
         /\ result'[r] = 500
         /\ upl'[r].chunks = <<>>
         /\ calls'[r] = <<>>
         /\ lastCall' = NoCall
         /\ UNCHANGED storeVars]_vars

\* an unreadable upload answered with an error while the store holds records
C3_Witness ==
  \E r \in Uploads :
    /\ upl[r].readErr
    /\ pc[r] = "done"
    /\ result[r] = 500
    /\ calls[r] = <<>>
    /\ stRecords # {}

\* the response of an upstream call of a search is a failure of that step
SearchStepFailed(c) ==
  CASE c.op = "embed" -> ~c.resp.net \/ c.resp.status # 200 \/ ~c.resp.decodes
    [] c.op = "get" -> c.resp.net /\ c.resp.status = 200 /\ ~c.resp.decodes
    [] c.op = "create" -> \/ ~c.resp.net
                          \/ c.resp.status \notin {200, 201}
                          \/ ~c.resp.decodes
                          \/ c.resp.id = 0
    [] c.op = "query" -> ~c.resp.net \/ c.resp.status >= 300 \/ ~c.resp.decodes
    [] OTHER -> FALSE

\* C4: a search whose embedding call, collection resolution or store query
\* failed answers with an error; it answers success only after a query that
\* the store answered with a status below 300.
C4_SearchPropagatesFailure ==
  \A r \in Searches :
    /\ (lastCall.req = r /\ SearchStepFailed(lastCall)) =>
         (pc[r] = "done" /\ result[r] = 500)
    /\ (pc[r] = "done" /\ result[r] = 200) =>
         /\ lastCall.req = r
         /\ lastCall.op = "query"
         /\ lastCall.resp.net
         /\ lastCall.resp.status < 300
         /\ \A k \in 1..Len(calls[r]) : ~calls[r][k].err

\* a search whose store query was answered with status 500
C4_Witness ==
  \E r \in Searches :
    /\ pc[r] = "done"
    /\ lastCall.req = r
    /\ lastCall.op = "query"
    /\ lastCall.resp.status = 500
    /\ result[r] = 500

\* C5: a getOrCreateCollection call that follows one which created the
\* collection, with no reset in between and the store answering as its
\* interface says, returns the same identifier and sends no create request.
C5_ResolveTwice ==
  (resolves.prev # 0 /\ resolves.last.healthy) =>
    /\ ~resolves.last.err
    /\ resolves.last.id = resolves.prev
    /\ ~resolves.last.sentCreate

\* two calls in sequence, the first creating the collection
C5_Witness ==
  /\ resolves.prev # 0
  /\ resolves.last.healthy
  /\ resolves.last.id = resolves.prev

\* a delete answered with success (200) or with not-found (404)
Answered(e) == e.net /\ e.status \in {200, 404}

\* C6: a reset whose delete is answered with not-found reports success and
\* leaves the store unchanged; two resets in a row, each answered with 200 or
\* not-found, both report success and the second leaves the store as the
\* first left it.
C6_ResetIdempotent ==
  /\ \A k \in 1..Len(resets) :
       (resets[k].net /\ resets[k].status = 404) =>
         (resets[k].answer = 200 /\ ~resets[k].changed)
  /\ (Len(resets) = 2 /\ Answered(resets[1]) /\ Answered(resets[2])) =>
       /\ resets[1].answer = 200
       /\ resets[2].answer = 200
       /\ ~resets[2].changed

\* a reset that deleted the collection, followed by a reset of the now
\* missing collection
C6_Witness ==
  /\ Len(resets) = 2
  /\ resets[1].changed
  /\ resets[1].answer = 200
  /\ resets[2].status = 404
  /\ resets[2].answer = 200
  /\ \E r \in Reqs : kind[r] = "reset" /\ pc[r] = "done" /\ result[r] = 200

\* C12: ChunkText returns no chunk for a text without a word (the empty
\* text, or white space only), whatever the size and stride, and the ingest
\* of such a text makes no embedding request and no vector-store request.
C12_NoWordsNoRequests ==
  \A r \in Uploads :
    (~upl[r].readErr /\ \A k \in 1..Len(upl[r].content) : upl[r].content[k] \in {" ", "\n"}) =>
      /\ \A s \in 1..MaxSize, t \in 1..MaxStride : ChunkText(upl[r].content, s, t) = <<>>
      /\ upl[r].chunks = <<>>
      /\ pc[r] = "done"
      /\ calls[r] = <<>>
      /\ lastCall.req # r
      /\ outcomes[r] = <<>>
      /\ written[r] = <<>>

\* an upload of a document holding a line break and a blank, answered with
\* no upstream call made
C12_Witness ==
  \E r \in Uploads :
    /\ ~upl[r].readErr
    /\ upl[r].content = <<"\n", " ">>
    /\ upl[r].chunks = <<>>
    /\ pc[r] = "done"
    /\ lastCall = NoCall

\* ------------------------------------------------------------------------
\* Properties of HandleUpload's form values (checked under SpecForm)
\* ------------------------------------------------------------------------
\* the positive integer a form value stands for, 0 when it is absent or is
\* not the decimal notation of a positive integer
C13_Positive(v) ==
  CASE v = <<"1">> -> 1
    [] v = <<"+", "2">> -> 2
    [] v = <<"1", "2">> -> 12
    [] v = <<"0", "3">> -> 3
    [] OTHER -> 0

\* C13: the chunk size and stride an upload passes to processPDF and
\* ChunkText are both positive: each is the form value when that is
\* supplied and is a positive integer, and else its default (size 100,
\* stride 80), whatever the other form value is.
C13_ChunkParamsPositive ==
  \A r \in Uploads :
    LET s == C13_Positive(form.chunkSize)
        t == C13_Positive(form.chunkStride)
    IN /\ upl[r].chunkSize > 0
       /\ upl[r].chunkStride > 0
       /\ upl[r].chunkSize = (IF s > 0 THEN s ELSE 100)
       /\ upl[r].chunkStride = (IF t > 0 THEN t ELSE 80)
       /\ ~upl[r].readErr =>
            upl[r].chunks = ChunkText(upl[r].content, upl[r].chunkSize, upl[r].chunkStride)

\* an upload whose chunkSize is no integer and whose chunkStride is "+2":
\* the size is the default, the stride is 2, and its 3 words make 2 chunks
C13_Witness ==
  \E r \in Uploads :
    /\ form.chunkSize = <<"x">>
    /\ form.chunkStride = <<"+", "2">>
    /\ upl[r].chunkSize = 100
    /\ upl[r].chunkStride = 2
    /\ Len(upl[r].chunks) = 1
    /\ Len(Fields(upl[r].content)) = 3
    /\ pc[r] = "done"

\* ------------------------------------------------------------------------
\* Properties of the records stored (checked under Spec)
\* ------------------------------------------------------------------------
\* the records of a store that hold the same chunk of the same file as rec
SameContent(rec, records) ==
  {x \in records : /\ x.filename = rec.filename
                    /\ x.chunk_num = rec.chunk_num
                    /\ x.text = rec.text}

\* request r is about to POST a record, and this step is its addToChroma
\* taking the write as done
WritesRecord(r) ==
  /\ pc[r] = "add"
  /\ Len(outcomes'[r]) = Len(outcomes[r]) + 1
  /\ outcomes'[r][Len(outcomes'[r])] = "stored"

\* C14: no step of an ingest overwrites or removes a stored record (only a
\* reset removes records); every write an ingest takes as done adds exactly
\* one record, under an identifier no stored record has, also when the store
\* already holds records of the same chunk of the same file.
C14_IngestOnlyAdds ==
  [][/\ (\A r \in Reqs : kind'[r] = "reset" => kind[r] = "reset") =>
          stRecords \subseteq stRecords'
     /\ \A r \in Reqs :
          WritesRecord(r) =>
            \E rec \in stRecords' :
              /\ rec \notin stRecords
              /\ stRecords' = stRecords \cup {rec}
              /\ \A x \in stRecords : x.id # rec.id
              /\ rec.filename = upl[r].filename
              /\ rec.chunk_num = upl[r].i + 1
              /\ rec.text = upl[r].chunks[upl[r].i + 1]
              /\ Cardinality(SameContent(rec, stRecords')) =
                   Cardinality(SameContent(rec, stRecords)) + 1]_vars

\* the same two-chunk file ingested twice with no failure: the store holds
\* two records of each of its chunks
C14_Witness ==
  \E r \in Uploads :
    /\ pc[r] = "done"
    /\ \E q \in Reqs : q < r /\ kind[q] = "upload" /\ result[q] = 200
    /\ outcomes[r] = <<"stored", "stored">>
    /\ \A k \in 1..2 :
         Cardinality({x \in stRecords : /\ x.filename = upl[r].filename
                                         /\ x.chunk_num = k
                                         /\ x.text = upl[r].chunks[k]}) = 2

\* ------------------------------------------------------------------------
\* Properties of the login gate (checked under SpecAuth)
\* ------------------------------------------------------------------------
\* the header is "Bearer " followed by a token that the configured secret
\* signed and that has not expired
C15_Authorized(h) ==
  /\ Len(h) = 2
  /\ h[1] = "Bearer "
  /\ h[2] \in {tok \in Tokens : /\ TokenOf(tok).jwt
                                 /\ TokenOf(tok).key = "change_me_in_prod"
                                 /\ ~TokenOf(tok).expired}

\* C15: a request without Authorization header, with a header that does not
\* start with "Bearer ", or with a token that does not validate against the
\* secret never reaches HandleUpload, HandleSearch or HandleReset: it is
\* answered 401 with no upstream request made and the store left as it was.
\* The health endpoint answers 200 whatever the header.
C15_LoginGate ==
  [][\A r \in Reqs :
       /\ (pc[r] = "idle" /\ pc'[r] # "idle" /\ ~C15_Authorized(authHeader')) =>
            /\ kind'[r] \in {"denied", "health"}
            /\ pc'[r] = "done"
            /\ calls'[r] = <<>>
            /\ lastCall'.req # r
            /\ UNCHANGED <<storeVars, nextUUID>>
       /\ kind'[r] = "denied" => result'[r] = 401 /\ calls'[r] = <<>>
       /\ kind'[r] = "health" => result'[r] = 200 /\ calls'[r] = <<>>]_vars

\* an upload stored records, then a request with an expired token is
\* answered 401 and the store still holds the records
C15_Witness ==
  \E r \in Reqs :
    /\ kind[r] = "denied"
    /\ pc[r] = "done"
    /\ result[r] = 401
    /\ authHeader = <<"Bearer ", "expired.jwt">>
    /\ \E q \in Reqs : q < r /\ kind[q] = "upload" /\ result[q] = 200
    /\ Cardinality(stRecords) >= 2

\* ------------------------------------------------------------------------
\* Properties of getOrCreateCollection (checked under Spec)
\* ------------------------------------------------------------------------
\* getOrCreateCollection returned an error in the last chunk of upload r, or
\* in search r
ProvisioningFailed(r) ==
  \E k \in 1..Len(calls[r]) : calls[r][k].op \in {"get", "create"} /\ calls[r][k].err

\* C16 (as stated): a request in which getOrCreateCollection failed is
\* answered with an error and not with success, an upload as well as a
\* search.
C16_ProvisioningFatal ==
  \A r \in Uploads \cup Searches :
    (pc[r] = "done" /\ ProvisioningFailed(r)) => result[r] = 500

\* ------------------------------------------------------------------------
\* Properties of concurrent requests (checked under SpecConc)
\* ------------------------------------------------------------------------
\* the collection identifiers under which the store accepted records of upload r
WrittenCols(r) == {written[r][k].col : k \in 1..Len(written[r])}

\* a reset arrived after upload r and before r was answered
ConcurrentReset(r) == \E q \in Reqs : q > r /\ kind[q] = "reset"

\* C17: without a reset running between its chunk writes, all records of one
\* ingest are written under one collection identifier; with one, the later
\* chunks are written under the identifier of a collection created anew, so
\* the records of one ingest can have been written under two identifiers.
C17_SplitOnlyByReset ==
  \A r \in Uploads :
    /\ ~ConcurrentReset(r) => Cardinality(WrittenCols(r)) <= 1
    /\ \A k \in 1..(Len(written[r]) - 1) :
         written[r][k].col # written[r][k + 1].col =>
           /\ written[r][k].col < written[r][k + 1].col
           /\ \A x \in stRecords : x.col # written[r][k].col

\* an ingest of two chunks with a reset between its two writes: chunk 1 was
\* written under one identifier and chunk 2 under another
C17_Witness ==
  \E r \in Uploads :
    /\ pc[r] = "done"
    /\ ConcurrentReset(r)
    /\ outcomes[r] = <<"stored", "stored">>
    /\ written[r][1].col # written[r][2].col
    /\ written[r][2].col = stCol

\* ------------------------------------------------------------------------
\* Per-write resolution against one resolution (checked under SpecEquiv)
\* ------------------------------------------------------------------------
EquivDone == kind[1] = "upload" /\ pc[1] = "done"
EquivOnce == OnceIngest(upl[1].chunks, upl[1].filename, pat)
SomeEmbedded == \E k \in 1..Len(pat.embed) : pat.embed[k] = "ok"

Fetched(resp) == resp.net /\ resp.status = 200

\* C19: getOrCreateCollection sends the create request exactly when the
\* fetch by name failed at transport level or was answered with a status
\* other than success (200); after a fetch answered with success it returns
\* the fetched identifier, or a parse error, and sends no create request.
C19_CreateIffFetchFailed ==
  [][\A r \in Reqs :
       /\ (pc[r] = "get" /\ pc'[r] # "get") =>
            LET resp == lastCall'.resp
                last == calls'[r][Len(calls'[r])]
            IN /\ lastCall'.req = r /\ lastCall'.op = "get"
               /\ pc'[r] = "create" <=> ~Fetched(resp)
               /\ (Fetched(resp) /\ resp.decodes) =>
                    /\ pc'[r] \in {"add", "query"}
                    /\ colID'[r] = resp.id
                    /\ ~last.err
               /\ (Fetched(resp) /\ ~resp.decodes) =>
                    /\ pc'[r] \notin {"add", "query"}
                    /\ last.op = "get" /\ last.err
       /\ (pc[r] = "create" /\ pc'[r] # "create") =>
            /\ lastCall'.req = r /\ lastCall'.op = "create"
            /\ lastCall.req = r /\ lastCall.op = "get"
            /\ ~Fetched(lastCall.resp)
       /\ (lastCall'.req = r /\ lastCall'.op = "create" /\ lastCall' # lastCall) =>
            pc[r] = "create"]_vars

\* the fetch failed at transport level although the collection exists, and
\* the create request is the next call
C19_Witness ==
  \E r \in Reqs :
    /\ pc[r] = "create"
    /\ lastCall.req = r
    /\ lastCall.op = "get"
    /\ ~lastCall.resp.net
    /\ stCol # 0

\* C20 (as stated): whenever getOrCreateCollection returns without error the
\* identifier it returns is not empty, after a fetch as well as after a
\* creation, so no add or query request is sent with an empty collection
\* identifier.
C20_ResolvedIdNonEmpty ==
  \A r \in Reqs :
    /\ pc[r] \in {"add", "query"} => colID[r] # 0
    /\ (lastCall.req = r /\ lastCall.op \in {"add", "query"}) => colID[r] # 0

\* ------------------------------------------------------------------------
\* Properties of HandleReset (checked under Spec)
\* ------------------------------------------------------------------------
\* C21 (as stated): a reset reports success exactly when the delete was
\* answered with a success status (any 2xx, 204 as well as 200) or with
\* not-found, and an error exactly when the delete failed at transport level
\* or was answered with another status.
C21_ResetSuccessStatuses ==
  \A k \in 1..Len(resets) :
    resets[k].answer = 200 <=>
      /\ resets[k].net
      /\ \/ (200 <= resets[k].status /\ resets[k].status < 300)
         \/ resets[k].status = 404

\* ------------------------------------------------------------------------
\* Records and order of an ingest (checked under Spec)
\* ------------------------------------------------------------------------
\* C22: every record an ingest writes carries the text of one chunk, source
\* "pdf", the uploaded filename and, as chunk_num, that chunk's 1-based
\* position in the full chunk sequence; the chunk_num values of one ingest
\* are strictly increasing and lie in 1..number of chunks.
C22_RecordMetadata ==
  \A r \in Uploads :
    \A k \in 1..Len(written[r]) :
      LET rec == written[r][k]
      IN /\ rec.source = "pdf"
         /\ rec.filename = upl[r].filename
         /\ rec.chunk_num \in 1..Len(upl[r].chunks)
         /\ rec.text = upl[r].chunks[rec.chunk_num]
         /\ k > 1 => written[r][k - 1].chunk_num < rec.chunk_num
         /\ rec \in stRecords

\* an ingest of 3 chunks whose first chunk was dropped: the records written
\* are numbered 2 and 3
C22_Witness ==
  \E r \in Uploads :
    /\ pc[r] = "done"
    /\ Len(upl[r].chunks) = 3
    /\ outcomes[r][1] # "stored"
    /\ Len(written[r]) = 2
    /\ written[r][1].chunk_num = 2
    /\ written[r][2].chunk_num = 3

\* the upstream calls of the loop iteration an upload is in, by name
OpsOf(cs) == [k \in 1..Len(cs) |-> cs[k].op]

\* C23: within one ingest the chunks are processed one at a time in chunk
\* order: chunk k+1 is worked on only after the iterations of chunks 1..k
\* have ended, a store write follows a successful embedding of the same
\* chunk, and a chunk gets at most one embedding call and one write.
C23_OneChunkAtATime ==
  \A r \in Uploads :
    /\ pc[r] \in {"embed", "get", "create", "add"} =>
         /\ upl[r].i < Len(upl[r].chunks)
         /\ Len(outcomes[r]) = upl[r].i
    /\ (pc[r] = "done" /\ ~upl[r].readErr) =>
         /\ upl[r].i = Len(upl[r].chunks)
         /\ Len(outcomes[r]) = Len(upl[r].chunks)
    /\ Len(written[r]) <= Len(outcomes[r])
    /\ OpsOf(calls[r]) \in {<<>>, <<"embed">>, <<"embed", "get">>,
                              <<"embed", "get", "create">>,
                              <<"embed", "get", "add">>,
                              <<"embed", "get", "create", "add">>}
    /\ \A k \in 1..(Len(calls[r]) - 1) : ~calls[r][k].err
    /\ pc[r] = "get" => OpsOf(calls[r]) = <<"embed">> /\ ~calls[r][1].err
    /\ pc[r] = "create" => OpsOf(calls[r]) = <<"embed", "get">>
    /\ pc[r] = "add" =>
         /\ OpsOf(calls[r]) \in {<<"embed", "get">>, <<"embed", "get", "create">>}
         /\ ~calls[r][Len(calls[r])].err

\* an ingest about to write its third chunk, after the iteration of chunk 1
\* ended at a failed embedding and that of chunk 2 at a failed write
C23_Witness ==
  \E r \in Uploads :
    /\ pc[r] = "add"
    /\ upl[r].i = 2
    /\ outcomes[r] = <<"embedFail", "writeFail">>
    /\ OpsOf(calls[r]) = <<"embed", "get", "create">>

\* ------------------------------------------------------------------------
\* Store writes and queries (checked under Spec)
\* ------------------------------------------------------------------------
\* the status rule of a store response: delivered, with a status below 300
StatusBelow300(resp) == resp.net /\ resp.status < 300

\* C24: a store write fails exactly when the collection cannot be resolved,
\* the request fails at transport level or the response status is >= 300,
\* and succeeds for every status < 300; a store query uses the same status
\* rule and fails also when the response body cannot be parsed.
C24_WriteAndQueryFailures ==
  \A r \in Reqs :
    lastCall.req = r =>
      LET resp == lastCall.resp
          outs == outcomes[r]
      IN /\ lastCall.op = "add" =>
              /\ Len(outs) > 0
              /\ outs[Len(outs)] = IF StatusBelow300(resp) THEN "stored" ELSE "writeFail"
         /\ lastCall.op = "query" =>
              /\ pc[r] = "done"
              /\ result[r] = IF StatusBelow300(resp) /\ resp.decodes THEN 200 ELSE 500
         /\ (lastCall.op \in {"get", "create"} /\ calls[r][Len(calls[r])].err) =>
              IF kind[r] = "upload"
              THEN /\ Len(outs) > 0
                   /\ outs[Len(outs)] = "writeFail"
                   /\ Len(written[r]) < Len(outs)
              ELSE pc[r] = "done" /\ result[r] = 500

\* a write answered 201 with a body that is not JSON: the chunk is stored
C24_Witness ==
  \E r \in Uploads :
    /\ lastCall.req = r
    /\ lastCall.op = "add"
    /\ lastCall.resp.status = 201
    /\ ~lastCall.resp.decodes
    /\ outcomes[r][Len(outcomes[r])] = "stored"

\* ------------------------------------------------------------------------
\* What destroys a collection (checked under Spec)
\* ------------------------------------------------------------------------
\* the step is the one of a reset request
ResetStep == \E r \in Reqs : pc[r] = "idle" /\ kind'[r] = "reset"

\* C25: a collection is destroyed only by a reset request: no step of an
\* ingest or a search sends a delete to the store, and in every such step a
\* collection that exists keeps existing under the same identifier, with all
\* its records.
C25_DestroyedOnlyByReset ==
  [][~ResetStep =>
       /\ lastCall'.op # "delete"
       /\ stCol # 0 => stCol' = stCol
       /\ stCol # 0 => stRecords \subseteq stRecords']_vars

\* an ingest has written two records into a collection that existed before it
\* sent its first request, and no reset has run
C25_Witness ==
  \E r \in Uploads :
    /\ pc[r] = "done"
    /\ \A q \in Reqs : kind[q] # "reset"
    /\ Len(written[r]) = 2
    /\ stCol = 1
    /\ stNextCol = 2
    /\ \A k \in 1..2 : written[r][k].col = 1 /\ written[r][k] \in stRecords

\* ------------------------------------------------------------------------
\* Concurrent getOrCreateCollection (checked under SpecConc, whose store
\* answers every request as its interface says and keeps names unique)
\* ------------------------------------------------------------------------
\* C26 (as stated): when requests resolve the collection concurrently while
\* it does not exist, every one of their resolves succeeds and returns the
\* identifier of the one collection that exists afterwards.
C26_ConcurrentResolvesAgree ==
  \A r \in Uploads \cup Searches :
    (lastCall.req = r /\ lastCall.op = "create") =>
      /\ ~calls[r][Len(calls[r])].err
      /\ stCol # 0
      /\ colID[r] = stCol

\* ------------------------------------------------------------------------
\* What a search does to the store (checked under Spec)
\* ------------------------------------------------------------------------
\* the step is one of the handler of search request r
SearchStep(r) ==
  /\ pc[r] \in {"idle", "embed", "get", "create", "query"}
  /\ pc'[r] # pc[r]
  /\ kind'[r] = "search"

\* C27: a search changes the store at most by creating the collection when
\* it is absent: it sends the store no request unless the query embedding
\* succeeded, it adds and removes no record and deletes no collection, and
\* after a search that answers success the collection exists.
C27_SearchOnlyCreates ==
  [][\A r \in Reqs :
       SearchStep(r) =>
         /\ stRecords' = stRecords
         /\ \/ stCol' = stCol
            \/ stCol = 0 /\ stCol' # 0 /\ pc[r] = "create"
         /\ lastCall'.op \notin {"add", "delete"}
         /\ (pc[r] = "embed" /\ pc'[r] # "done") =>
              /\ lastCall'.op = "embed"
              /\ lastCall'.resp.net
              /\ lastCall'.resp.status = 200
              /\ lastCall'.resp.decodes
         /\ lastCall'.op \in {"get", "create", "query"} =>
              /\ pc[r] \in {"get", "create", "query"}
              /\ calls[r][1].op = "embed"
         /\ (pc'[r] = "done" /\ result'[r] = 200) =>
              /\ pc[r] = "query"
              /\ stCol' # 0
              /\ colID[r] = stCol']_vars

\* a search that found no collection, created it and answered success
C27_Witness ==
  \E r \in Searches :
    /\ pc[r] = "done"
    /\ result[r] = 200
    /\ OpsOf(calls[r]) = <<"embed", "get", "create", "query">>
    /\ stCol # 0
    /\ colID[r] = stCol

\* ------------------------------------------------------------------------
\* Termination of an upload (checked under SpecLive)
\* ------------------------------------------------------------------------
\* what is left of the loop of ChunkText: 0 once it has returned, else one
\* more than the number of words from the loop index on
ChunkRank ==
  IF ctDone THEN 0 ELSE 1 + Max(0, Len(Fields(ctText)) - ctI)

\* the upstream calls processPDF can still make for upload r: four per chunk
\* not yet processed (embedding, GET, POST of the collection, add), less
\* those of the current chunk that have been made or skipped
CallRank(r) ==
  4 * (Len(upl[r].chunks) - upl[r].i)
    - (CASE pc[r] = "get" -> 1 [] pc[r] = "create" -> 2 [] pc[r] = "add" -> 3
         [] OTHER -> 0)

InChunkLoop(r) == pc[r] \in {"embed", "get", "create", "add"}

\* C28: every upload is eventually answered when every upstream call
\* returns: ChunkText is called with a positive size and stride only, each
\* iteration of its loop brings it nearer to its return and it returns what
\* the function ChunkText yields; every upstream call of the chunk loop
\* uses up one of the at most four calls per chunk (one embedding, one
\* resolve by GET and POST, one write).
C28_UploadsComplete ==
  /\ [](\A r \in Reqs : pc[r] = "chunk" => ctSize > 0 /\ ctStride > 0)
  /\ [][\A r \in Reqs : pc[r] = "chunk" => ChunkRank' < ChunkRank]_vars
  /\ [](\A r \in Reqs :
          (kind[r] = "upload" /\ ~upl[r].readErr /\ pc[r] # "chunk") =>
             /\ ctDone
             /\ upl[r].chunks = ChunkText(upl[r].content, upl[r].chunkSize, upl[r].chunkStride)
             /\ CallRank(r) >= 0
             /\ CallRank(r) <= 4 * Len(upl[r].chunks))
  /\ [][\A r \in Reqs : InChunkLoop(r) => CallRank(r)' < CallRank(r)]_vars
  /\ \A r \in Reqs : (pc[r] = "chunk") ~> ctDone
  /\ \A r \in Reqs : (kind[r] = "upload") ~> (pc[r] = "done" /\ result[r] # 0)

\* an upload of three words with chunkSize 1 and chunkStride 1 is answered:
\* ChunkText returned in its third iteration, and the last of the three
\* chunks took the four calls
C28_Witness ==
  \E r \in Reqs :
    /\ kind[r] = "upload"
    /\ pc[r] = "done"
    /\ result[r] = 200
    /\ ctDone
    /\ ctI = 2
    /\ Len(upl[r].chunks) = 3
    /\ Len(outcomes[r]) = 3
    /\ OpsOf(calls[r]) = <<"embed", "get", "create", "add">>

=============================================================================
